---- MODULE Spec2Model ----
(***************************************************************************)
(* Model of the chunked blob corruption checker                            *)
(* (src/src/blob_corruption_checker.rs) together with the fixture          *)
(* generator that produces its inputs (src/bin/generate_blobs.rs).         *)
(*                                                                         *)
(* One behaviour is one pair of files and one chunk_size, on which the     *)
(* four find_corruptions_* variants are called one after the other, in     *)
(* the order of the test module.  Every call is modelled step by step:     *)
(* opening the files, the read loop of the sequential variant, the         *)
(* per-chunk comparisons of the (parallel) map, the collect + sort, the    *)
(* merge loop and the final push.                                          *)
(***************************************************************************)
EXTENDS Integers, Sequences, FiniteSets, TLC

(***************************************************************************)
(* Bounds of the model.                                                    *)
(***************************************************************************)
\* longest reference file, in bytes (SIZE_MB * 1024 * 1024 in the generator)
MaxLen == 5
\* largest chunk_size passed to a call (0 is included: the invalid value)
MaxChunkSize == 3
\* most chunks a file is cut into: file_len <= chunk_size * MaxChunks
MaxChunks == 3
\* most corruption points the generator injects
MaxCorruptions == 2
\* longest corruption window (gen_range(512..4096) in the generator)
MaxWindow == 2
\* worker threads of the rayon pool
NumWorkers == 2
\* capacity of the BufReader's internal buffer (8192 in std), scaled down
BufCap == 3
\* lane count of chunks_equal_simd (64 at the call sites), scaled down
LANES == 2

Min(a, b) == IF a <= b THEN a ELSE b

\* the bytes [lo, hi) of a file or slice (0-based, half open)
Slice(s, lo, hi) == SubSeq(s, lo + 1, hi)

(***************************************************************************)
(* Fixtures: generate_blob.                                                *)
(***************************************************************************)
\* the deterministic pattern: byte p of the file is p % 256
PatternByte(p) == p % 256

\* corrupt by XOR with 0xFF
XorFF(b) == 255 - b

\* does a corruption point (offset, length) cover byte p
InWindow(pt, p) == pt[1] <= p /\ p < pt[1] + pt[2]

\* a byte is XORed once for every corruption point that covers it
generate_blob(size, points) ==
    [i \in 1..size |->
        LET p == i - 1
            hits == Cardinality({pt \in points : InWindow(pt, p)})
        IN  IF hits % 2 = 1 THEN XorFF(PatternByte(p)) ELSE PatternByte(p)]

\* the sets of at most n corruption points (offset, length) inside the file
RECURSIVE PointSets(_, _)
PointSets(size, n) ==
    IF n = 0 THEN {{}}
    ELSE LET fewer == PointSets(size, n - 1)
         IN  fewer \cup {pts \cup {pt} :
                           pts \in fewer,
                           pt \in (0..(size - 1)) \X (1..MaxWindow)}

CorruptionPoints(size) == PointSets(size, MaxCorruptions)

(***************************************************************************)
(* The result of a call.                                                   *)
(***************************************************************************)
NoResult == [kind |-> "none", records |-> <<>>]
Panic == [kind |-> "panic", records |-> <<>>]
Returned(records) == [kind |-> "ok", records |-> records]

Corruption(offset, length) == [offset |-> offset, length |-> length]

Variants == <<"sequential", "parallel", "simd", "simd_parallel">>

VARIABLES
    reference,          \* bytes of the reference file
    corrupted,          \* bytes of the candidate file
    chunk_size,         \* the chunk_size argument
    call,               \* index into Variants of the running call
    pc,                 \* position inside the running call
    opened,             \* have the files of the running call been opened
    ref_file,           \* BufReader over the reference file
    corrupt_file,       \* BufReader over the candidate file
    offset,             \* sequential variant: bytes compared so far
    slots,              \* map output per chunk index (worker, verdict)
    chunk_mismatches,   \* the collected and sorted Vec<(usize, bool)>
    next,               \* merge loop: index of the next element
    current_corruption, \* Option<Corruption>: <<>> or <<c>>
    corruptions,        \* the Vec<Corruption> being built
    reports,            \* result of each finished call, by variant index
    round,              \* "first" or "second" round of the four calls
    swapped,            \* second round: were the two paths exchanged
    prev                \* the reports of the first round

\* bfs.rs: a Graph and one call of bfs_naive
VARIABLES
    adjacency,          \* Graph.adjacency: Vec<Vec<usize>>, <<>> before Graph::new
    bfs_pc,             \* "off", "build", "loop", "returned", "panicked"
    start,              \* the start argument
    visited,            \* the HashSet of visited nodes
    queue,              \* the VecDeque
    result              \* the Vec being returned

\* dna_matcher.rs: one call of memchr_search_bytes, then one of
\* memchr_search_bytes_parallel, on the same genome and pattern
VARIABLES
    genome,             \* the bytes searched
    pattern,            \* the bytes searched for
    dna_pc,             \* "off", "sequential", "searched", "split", "parallel",
                        \* "returned"
    seen,               \* the HashSet of lines (behind the Mutex when parallel)
    matches_done,       \* matches consumed from find_iter so far
    results,            \* the Vec collected by memchr_search_bytes
    chunk_starts,       \* parallel: the Vec of chunk boundaries
    split_pos,          \* parallel: pos of the splitting loop
    chunk_done,         \* parallel: per window, matches consumed so far
    local_results,      \* parallel: per window, its local_results
    parallel_results    \* the Vec collected by memchr_search_bytes_parallel

\* simd_brightness.rs: the three brightness functions on one image
VARIABLES
    img,                \* the input image: width, height, raw bytes
    adjustment,         \* the adjustment argument (i16)
    overflow_checks,    \* is the build one with overflow checks
    brightness_call,    \* index into BrightnessFns of the running call
    brightness_pc,      \* "off", "start", "loop", "finished"
    index,              \* loop index of the running call
    output,             \* the output buffer of the running call
    images              \* result of each finished call

\* blob_corruption_checker.rs: one call of chunks_equal_simd on two slices
VARIABLES
    slice_a,            \* the argument a
    slice_b,            \* the argument b
    compare_pc,         \* "off", "called", "returned"
    verdict             \* the boolean returned

blob_vars == <<reference, corrupted, chunk_size, call, pc, opened, ref_file,
               corrupt_file, offset, slots, chunk_mismatches, next,
               current_corruption, corruptions, reports, round, swapped, prev>>

bfs_vars == <<adjacency, bfs_pc, start, visited, queue, result>>

dna_vars == <<genome, pattern, dna_pc, seen, matches_done, results,
              chunk_starts, split_pos, chunk_done, local_results,
              parallel_results>>

brightness_vars == <<img, adjustment, overflow_checks, brightness_call,
                     brightness_pc, index, output, images>>

compare_vars == <<slice_a, slice_b, compare_pc, verdict>>

vars == <<blob_vars, bfs_vars, dna_vars, brightness_vars, compare_vars>>

\* what the corruption checker never touches
others == <<bfs_vars, dna_vars, brightness_vars, compare_vars>>

\* chunks_equal_simd is not being called on its own
NoCompare ==
    /\ slice_a = <<>>
    /\ slice_b = <<>>
    /\ compare_pc = "off"
    /\ verdict = FALSE

\* no graph has been built
NoGraph ==
    /\ adjacency = <<>>
    /\ bfs_pc = "off"
    /\ start = 0
    /\ visited = {}
    /\ queue = <<>>
    /\ result = <<>>

\* no genome is being searched
NoSearch ==
    /\ genome = <<>>
    /\ pattern = <<>>
    /\ dna_pc = "off"
    /\ seen = {}
    /\ matches_done = 0
    /\ results = <<>>
    /\ chunk_starts = <<>>
    /\ split_pos = 0
    /\ chunk_done = <<>>
    /\ local_results = <<>>
    /\ parallel_results = <<>>

\* no image is being processed
NoImage ==
    /\ img = [width |-> 0, height |-> 0, raw |-> <<>>]
    /\ adjustment = 0
    /\ overflow_checks = FALSE
    /\ brightness_call = 1
    /\ brightness_pc = "off"
    /\ index = 0
    /\ output = <<>>
    /\ images = <<>>

\* the rounds of calls: changed only when a second round starts
rounds == <<round, swapped, prev>>

inputs == <<reference, corrupted, chunk_size>>

variant == Variants[call]

(***************************************************************************)
(* BufReader (std::io).  A reader is [inner, lo, hi]: the cursor of the    *)
(* underlying file and the file range [lo, hi) still unread in the         *)
(* internal buffer.                                                        *)
(***************************************************************************)
NewBufReader == [inner |-> 0, lo |-> 0, hi |-> 0]

\* File::read on a regular file: as many bytes as asked for, or what is left
FileRead(file, cursor, len) == Min(len, Len(file) - cursor)

\* BufReader::fill_buf: refill the internal buffer when it is exhausted
FillBuf(rd, file) ==
    IF rd.lo >= rd.hi
    THEN LET got == FileRead(file, rd.inner, BufCap)
         IN  [inner |-> rd.inner + got, lo |-> rd.inner, hi |-> rd.inner + got]
    ELSE rd

\* BufReader::read into a buffer of len bytes: [n, at, rd], the n bytes read
\* are the file bytes [at, at + n)
BufRead(rd, file, len) ==
    IF rd.lo = rd.hi /\ len >= BufCap
    THEN \* empty buffer and a large read: bypass the internal buffer
         LET got == FileRead(file, rd.inner, len)
         IN  [n |-> got, at |-> rd.inner,
              rd |-> [inner |-> rd.inner + got, lo |-> rd.inner + got,
                      hi |-> rd.inner + got]]
    ELSE LET filled == FillBuf(rd, file)
             got == Min(len, filled.hi - filled.lo)
         IN  [n |-> got, at |-> filled.lo,
              rd |-> [filled EXCEPT !.lo = filled.lo + got]]

\* BufReader::read_exact of len bytes: read until the buffer is full;
\* a read of 0 bytes before that is UnexpectedEof
RECURSIVE ReadExact(_, _, _)
ReadExact(rd, file, len) ==
    IF len = 0 THEN [ok |-> TRUE, rd |-> rd]
    ELSE LET r == BufRead(rd, file, len)
         IN  IF r.n = 0 THEN [ok |-> FALSE, rd |-> r.rd]
             ELSE ReadExact(r.rd, file, len - r.n)

\* the file offset of the next byte a reader hands out
StreamPos(rd) == IF rd.lo < rd.hi THEN rd.lo ELSE rd.inner

(***************************************************************************)
(* Chunk comparison.                                                       *)
(***************************************************************************)
\* slice equality a == b of the scalar variants
SliceEq(a, b) == a = b

\* variant of SimdNeAny that tests the first lane only
SimdNeFirstLane(a, b, at) == a[at + 1] # b[at + 1]

\* variant of SimdNeAny with simd_gt in place of simd_ne
SimdGtAny(a, b, at) == \E j \in 1..LANES : a[at + j] > b[at + j]

\* does one lane pair differ somewhere: a_simd.simd_ne(b_simd).any()
SimdNeAny(a, b, at) == \E j \in 1..LANES : a[at + j] # b[at + j]

\* variant of SimdLoop whose remainder comparison takes b[..len - offset]
\* in place of b[offset..]
RECURSIVE SimdLoopTailFromStart(_, _, _, _)
SimdLoopTailFromStart(a, b, at, simd_len) ==
    IF at < simd_len
    THEN IF SimdNeAny(a, b, at) THEN FALSE
         ELSE SimdLoopTailFromStart(a, b, at + LANES, simd_len)
    ELSE Slice(a, at, Len(a)) = Slice(b, 0, Len(b) - at)

\* the while loop over the full lanes: FALSE as soon as a lane differs
RECURSIVE SimdLoop(_, _, _, _)
SimdLoop(a, b, at, simd_len) ==
    IF at < simd_len
    THEN IF SimdNeAny(a, b, at) THEN FALSE
         ELSE SimdLoop(a, b, at + LANES, simd_len)
    ELSE Slice(a, at, Len(a)) = Slice(b, at, Len(b))

chunks_equal_simd(a, b) ==
    IF Len(a) # Len(b) THEN FALSE
    ELSE SimdLoop(a, b, 0, Len(a) - (Len(a) % LANES))

\* the comparison the running variant uses inside its map closure
ChunksMatch(v, a, b) ==
    IF v \in {"simd", "simd_parallel"} THEN chunks_equal_simd(a, b)
    ELSE SliceEq(a, b)

(***************************************************************************)
(* Chunking of the memory-mapped variants.                                 *)
(***************************************************************************)
\* (0..file_len).step_by(chunk_size): the offsets k * chunk_size < file_len
StepBy(file_len, step) ==
    LET count == IF file_len = 0 THEN 0 ELSE ((file_len - 1) \div step) + 1
    IN  [k \in 1..count |-> (k - 1) * step]

\* let end = (offset + chunk_size).min(file_len)
ChunkEnd(off, size, len) == Min(off + size, len)

\* variant of ChunkLen without the .min(file_len)
ChunkLenUnclipped(off, size, len) == size

\* let chunk_len = ((offset + chunk_size).min(file_len) - offset) as u64
ChunkLen(off, size, len) == ChunkEnd(off, size, len) - off

\* mmap[offset..end] panics when the range ends past the mapping
SliceInRange(file, off, end) == off <= end /\ end <= Len(file)

\* chunk_mismatches.sort_by_key(|(offset, _)| *offset): stable insertion
RECURSIVE SortedInsert(_, _)
SortedInsert(s, e) ==
    IF s = <<>> THEN <<e>>
    ELSE IF s[Len(s)][1] <= e[1] THEN Append(s, e)
    ELSE Append(SortedInsert(SubSeq(s, 1, Len(s) - 1), e), s[Len(s)])

\* variant of SortByKey with the key order inverted
RECURSIVE SortByKeyDescending(_)
SortByKeyDescending(s) ==
    IF s = <<>> THEN <<>>
    ELSE LET rest == SortByKeyDescending(SubSeq(s, 1, Len(s) - 1))
             e == s[Len(s)]
             before == SelectSeq(rest, LAMBDA x : x[1] > e[1])
             after == SelectSeq(rest, LAMBDA x : x[1] <= e[1])
         IN  before \o <<e>> \o after

RECURSIVE SortByKey(_)
SortByKey(s) ==
    IF s = <<>> THEN <<>>
    ELSE SortedInsert(SortByKey(SubSeq(s, 1, Len(s) - 1)), s[Len(s)])

(***************************************************************************)
(* Merging of consecutive corrupted chunks.                                *)
(***************************************************************************)
\* sequential variant: extend corruptions.last_mut() or push a new record
MergeLast(cs, off, n) ==
    IF cs # <<>>
    THEN LET last == cs[Len(cs)]
         IN  IF last.offset + last.length = off
             THEN [cs EXCEPT ![Len(cs)].length = last.length + n]
             ELSE Append(cs, Corruption(off, n))
    ELSE Append(cs, Corruption(off, n))

\* variant of MergeCurrent whose adjacency test never succeeds
MergeCurrentNeverExtends(cs, cur, off, chunk_len) ==
    IF cur # <<>>
    THEN [corruptions |-> Append(cs, cur[1]),
          current |-> <<Corruption(off, chunk_len)>>]
    ELSE [corruptions |-> cs, current |-> <<Corruption(off, chunk_len)>>]

\* mapped variants: one corrupted chunk against the open record;
\* the result is [corruptions, current_corruption]
MergeCurrent(cs, cur, off, chunk_len) ==
    IF cur # <<>>
    THEN LET corruption == cur[1]
         IN  IF corruption.offset + corruption.length = off
             THEN [corruptions |-> cs,
                   current |-> <<[corruption EXCEPT
                                    !.length = corruption.length + chunk_len]>>]
             ELSE [corruptions |-> Append(cs, corruption),
                   current |-> <<Corruption(off, chunk_len)>>]
    ELSE [corruptions |-> cs, current |-> <<Corruption(off, chunk_len)>>]

\* if let Some(corruption) = current_corruption { corruptions.push(..) }
PushLast(cs, cur) == IF cur # <<>> THEN Append(cs, cur[1]) ELSE cs

(***************************************************************************)
(* Initial states: the two files and the chunk_size of the calls.          *)
(***************************************************************************)
\* the candidate file with its length changed to len (a byte 0 appended)
Resized(file, len) ==
    [i \in 1..len |-> IF i <= Len(file) THEN file[i] ELSE 0]

\* the locals of a call that has not started, or has returned
Idle ==
    /\ ref_file = NewBufReader
    /\ corrupt_file = NewBufReader
    /\ offset = 0
    /\ slots = <<>>
    /\ chunk_mismatches = <<>>
    /\ next = 1
    /\ current_corruption = <<>>
    /\ corruptions = <<>>

Init ==
    /\ \E size \in 0..MaxLen, cs \in 0..MaxChunkSize, delta \in {-1, 0, 1} :
         /\ size <= cs * MaxChunks \/ cs = 0
         /\ size + delta >= 0
         /\ \E pts \in CorruptionPoints(size) :
              /\ reference = generate_blob(size, {})
              /\ corrupted = Resized(generate_blob(size, pts), size + delta)
         /\ chunk_size = cs
    /\ call = 1
    /\ pc = "start"
    /\ opened = FALSE
    /\ Idle
    /\ reports = [v \in 1..Len(Variants) |-> NoResult]
    /\ round = "first"
    /\ swapped = FALSE
    /\ prev = [v \in 1..Len(Variants) |-> NoResult]
    /\ NoGraph
    /\ NoCompare
    /\ NoSearch
    /\ NoImage

\* no files are being compared
NoBlobs ==
    /\ reference = <<>>
    /\ corrupted = <<>>
    /\ chunk_size = 0
    /\ call = 1
    /\ pc = "off"
    /\ opened = FALSE
    /\ Idle
    /\ reports = <<>>
    /\ round = "first"
    /\ swapped = FALSE
    /\ prev = <<>>

\* leave the call with result r: the locals are dropped (the record of
\* which thread compared which chunk is kept until the next call starts)
Return(r) ==
    /\ reports' = [reports EXCEPT ![call] = r]
    /\ pc' = "returned"
    /\ ref_file' = NewBufReader
    /\ corrupt_file' = NewBufReader
    /\ offset' = 0
    /\ chunk_mismatches' = <<>>
    /\ next' = 1
    /\ current_corruption' = <<>>
    /\ corruptions' = <<>>

(***************************************************************************)
(* find_corruptions_sequential                                             *)
(***************************************************************************)
\* lines 20-27: open both files behind BufReaders, allocate the buffers
OpenSequential ==
    /\ pc = "start"
    /\ variant = "sequential"
    /\ opened' = TRUE
    /\ pc' = "loop"
    /\ ref_file' = NewBufReader
    /\ corrupt_file' = NewBufReader
    /\ offset' = 0
    /\ corruptions' = <<>>
    /\ UNCHANGED <<others, inputs, rounds, call, slots, chunk_mismatches, next,
                   current_corruption, reports>>

\* lines 29-61: one iteration of the read loop
ReadChunk ==
    /\ pc = "loop"
    /\ LET r == BufRead(ref_file, reference, chunk_size)
           e == ReadExact(corrupt_file, corrupted, r.n)
           at == StreamPos(corrupt_file)
           ref_buffer == Slice(reference, r.at, r.at + r.n)
           corrupt_buffer == Slice(corrupted, at, at + r.n)
       IN  IF r.n = 0
           THEN Return(Returned(corruptions))
           ELSE IF ~e.ok
           THEN Return(Panic)
           ELSE /\ ref_file' = r.rd
                /\ corrupt_file' = e.rd
                /\ corruptions' =
                     IF ~SliceEq(ref_buffer, corrupt_buffer)
                     THEN MergeLast(corruptions, offset, r.n)
                     ELSE corruptions
                /\ offset' = offset + r.n
                /\ UNCHANGED <<pc, reports, chunk_mismatches, next,
                               current_corruption>>
    /\ UNCHANGED <<others, inputs, rounds, call, opened, slots>>

(***************************************************************************)
(* find_corruptions_parallel, find_corruptions_simd,                       *)
(* find_corruptions_simd_parallel                                          *)
(***************************************************************************)
\* file_len = ref_mmap.len()
file_len == Len(reference)

Pending == [done |-> FALSE, worker |-> 0, mismatch |-> FALSE]

\* open and map both files, build the chunk offsets; step_by(0) panics
MapFiles ==
    /\ pc = "start"
    /\ variant # "sequential"
    /\ opened' = TRUE
    /\ IF chunk_size = 0
       THEN Return(Panic) /\ UNCHANGED slots
       ELSE /\ slots' = [k \in DOMAIN StepBy(file_len, chunk_size) |-> Pending]
            /\ pc' = "map"
            /\ UNCHANGED <<ref_file, corrupt_file, offset, chunk_mismatches,
                           next, current_corruption, corruptions, reports>>
    /\ UNCHANGED <<others, inputs, rounds, call>>

\* the threads that may run the map closure: the caller for the serial
\* iterator of find_corruptions_simd, any pool worker for par_iter
Threads(v) == IF v = "simd" THEN {0} ELSE 1..NumWorkers

\* the chunks whose closure may run next: in order for the serial iterator
Runnable(v, sl) ==
    LET pending == {k \in DOMAIN sl : ~sl[k].done}
    IN  IF v = "simd" THEN {k \in pending : \A j \in pending : k <= j}
        ELSE pending

\* the map closure on chunk k, run by thread w
CompareChunk(w, k) ==
    /\ pc = "map"
    /\ w \in Threads(variant)
    /\ k \in Runnable(variant, slots)
    /\ LET off == StepBy(file_len, chunk_size)[k]
           end == ChunkEnd(off, chunk_size, file_len)
       IN  IF ~SliceInRange(corrupted, off, end)
           THEN Return(Panic) /\ UNCHANGED slots
           ELSE /\ slots' = [slots EXCEPT ![k] =
                     [done |-> TRUE, worker |-> w,
                      mismatch |-> ~ChunksMatch(variant,
                                       Slice(reference, off, end),
                                       Slice(corrupted, off, end))]]
                /\ UNCHANGED <<pc, reports, ref_file, corrupt_file, offset,
                               chunk_mismatches, next, current_corruption,
                               corruptions>>
    /\ UNCHANGED <<others, inputs, rounds, call, opened>>

\* variant of CollectVec that takes the verdicts grouped by the thread
\* that produced them (per-thread vectors, concatenated)
CollectVecByThread(sl) ==
    LET Rank(k) == Cardinality({j \in DOMAIN sl :
                        \/ sl[j].worker < sl[k].worker
                        \/ sl[j].worker = sl[k].worker /\ j <= k})
        At(r) == CHOOSE k \in DOMAIN sl : Rank(k) = r
    IN  [r \in DOMAIN sl |->
            <<StepBy(file_len, chunk_size)[r], sl[At(r)].mismatch>>]

\* collect(): the outputs in the order of the chunk indices
CollectVec(sl) ==
    [k \in DOMAIN sl |-> <<StepBy(file_len, chunk_size)[k], sl[k].mismatch>>]

\* collect, then sort_by_key
Collect ==
    /\ pc = "map"
    /\ \A k \in DOMAIN slots : slots[k].done
    /\ chunk_mismatches' = SortByKey(CollectVec(slots))
    /\ next' = 1
    /\ current_corruption' = <<>>
    /\ corruptions' = <<>>
    /\ pc' = "merge"
    /\ UNCHANGED <<others, inputs, rounds, call, opened, ref_file, corrupt_file, offset,
                   slots, reports>>

\* variant of MergeChunk that merges every chunk, corrupted or not
MergeChunkAlways ==
    /\ pc = "merge"
    /\ next <= Len(chunk_mismatches)
    /\ LET off == chunk_mismatches[next][1]
           m == MergeCurrent(corruptions, current_corruption, off,
                             ChunkLen(off, chunk_size, file_len))
       IN  /\ corruptions' = m.corruptions
           /\ current_corruption' = m.current
    /\ next' = next + 1
    /\ UNCHANGED <<others, inputs, rounds, call, pc, opened, ref_file, corrupt_file, offset,
                   slots, chunk_mismatches, reports>>

\* one iteration of the merge loop
MergeChunk ==
    /\ pc = "merge"
    /\ next <= Len(chunk_mismatches)
    /\ LET off == chunk_mismatches[next][1]
           is_corrupted == chunk_mismatches[next][2]
           m == MergeCurrent(corruptions, current_corruption, off,
                             ChunkLen(off, chunk_size, file_len))
       IN  /\ corruptions' = IF is_corrupted THEN m.corruptions
                             ELSE corruptions
           /\ current_corruption' = IF is_corrupted THEN m.current
                                    ELSE current_corruption
    /\ next' = next + 1
    /\ UNCHANGED <<others, inputs, rounds, call, pc, opened, ref_file, corrupt_file, offset,
                   slots, chunk_mismatches, reports>>

\* after the loop: push the open record and return
Finish ==
    /\ pc = "merge"
    /\ next > Len(chunk_mismatches)
    /\ Return(Returned(PushLast(corruptions, current_corruption)))
    /\ UNCHANGED <<others, inputs, rounds, call, opened, slots>>

(***************************************************************************)
(* The four calls, one after the other on the same files.                  *)
(***************************************************************************)
NextCall ==
    /\ pc = "returned"
    /\ call < Len(Variants)
    /\ call' = call + 1
    /\ pc' = "start"
    /\ opened' = FALSE
    /\ slots' = <<>>
    /\ UNCHANGED <<others, inputs, rounds, ref_file, corrupt_file, offset,
                   chunk_mismatches, next, current_corruption, corruptions,
                   reports>>

Next ==
    \/ OpenSequential
    \/ ReadChunk
    \/ MapFiles
    \/ \E w \in 0..NumWorkers, k \in 1..MaxLen : CompareChunk(w, k)
    \/ Collect
    \/ MergeChunk
    \/ Finish
    \/ NextCall

Spec == Init /\ [][Next]_vars

(***************************************************************************)
(* A second round of the four calls, on the same two files.                *)
(***************************************************************************)
\* the first round is over: start again, with the paths exchanged or not
SecondRound(exchange) ==
    /\ round = "first"
    /\ pc = "returned"
    /\ call = Len(Variants)
    /\ round' = "second"
    /\ swapped' = exchange
    /\ prev' = reports
    /\ reports' = [v \in 1..Len(Variants) |-> NoResult]
    /\ reference' = IF exchange THEN corrupted ELSE reference
    /\ corrupted' = IF exchange THEN reference ELSE corrupted
    /\ call' = 1
    /\ pc' = "start"
    /\ opened' = FALSE
    /\ slots' = <<>>
    /\ UNCHANGED <<others, chunk_size, ref_file, corrupt_file, offset,
                   chunk_mismatches, next, current_corruption, corruptions>>

\* the same calls again: find_corruptions_*(A, B, c) a second time
CallAgain == SecondRound(FALSE)

\* the calls with the arguments exchanged: find_corruptions_*(B, A, c)
CallExchanged == SecondRound(TRUE)

NextRepeat ==
    \/ Next
    \/ CallAgain

NextExchange ==
    \/ Next
    \/ CallExchanged

SpecRepeat == Init /\ [][NextRepeat]_vars

SpecExchange == Init /\ [][NextExchange]_vars

(***************************************************************************)
(* Vocabulary of the properties.                                           *)
(***************************************************************************)
AllCalls == 1..Len(Variants)
ParallelCalls == {v \in AllCalls : Variants[v] \in {"parallel", "simd_parallel"}}

HasReport(v) == reports[v].kind = "ok"
Finished(v) == reports[v].kind # "none"
RecordsOf(v) == reports[v].records

SameLength == Len(reference) = Len(corrupted)

\* byte position i (0-based) holds different bytes in the two files
Differs(i) ==
    /\ i < Len(reference)
    /\ i < Len(corrupted)
    /\ reference[i + 1] # corrupted[i + 1]

\* the chunks of the data model: chunk k is [k * c, min((k + 1) * c, N))
NumChunks ==
    IF file_len = 0 THEN 0 ELSE ((file_len - 1) \div chunk_size) + 1
ChunkStart(k) == k * chunk_size
ChunkStop(k) == Min((k + 1) * chunk_size, file_len)
ChunkDiffers(k) == \E i \in ChunkStart(k)..(ChunkStop(k) - 1) : Differs(i)

\* the maximal runs a..b of consecutive differing chunks, as records
IsMaximalRun(a, b) ==
    /\ a <= b
    /\ \A k \in a..b : ChunkDiffers(k)
    /\ a = 0 \/ ~ChunkDiffers(a - 1)
    /\ b = NumChunks - 1 \/ ~ChunkDiffers(b + 1)

MaximalRuns ==
    {Corruption(ChunkStart(ab[1]), ChunkStop(ab[2]) - ChunkStart(ab[1])) :
        ab \in {xy \in (0..(NumChunks - 1)) \X (0..(NumChunks - 1)) :
                  IsMaximalRun(xy[1], xy[2])}}

Range(s) == {s[i] : i \in DOMAIN s}
StrictlyIncreasing(rs) ==
    \A i, j \in DOMAIN rs : i < j => rs[i].offset < rs[j].offset

\* position i lies inside record r
Inside(i, r) == r.offset <= i /\ i < r.offset + r.length

(***************************************************************************)
(* C1: for two files of equal length and any chunk_size > 0, the four      *)
(* variants return the identical list of Corruption records.               *)
(***************************************************************************)
C1_AllVariantsAgree ==
    (SameLength /\ chunk_size > 0) =>
        \A v, w \in AllCalls :
            (Finished(v) /\ Finished(w)) =>
                /\ HasReport(v)
                /\ reports[v] = reports[w]

(***************************************************************************)
(* C2: whatever thread compares which chunk and in whatever order the      *)
(* comparisons complete, the report of the two parallel variants is the    *)
(* left-to-right merge of the chunk verdicts in ascending offset order:    *)
(* exactly the maximal runs of consecutive differing chunks, in ascending  *)
(* order, a run compared by several workers being one record.              *)
(***************************************************************************)
C2_ParallelIsOrderedMerge ==
    \A v \in ParallelCalls :
        HasReport(v) =>
            /\ Range(RecordsOf(v)) = MaximalRuns
            /\ StrictlyIncreasing(RecordsOf(v))

\* a parallel call has returned a record that spans two neighbouring chunks
\* compared by different workers
C2_Witness ==
    /\ call \in ParallelCalls
    /\ pc = "returned"
    /\ HasReport(call)
    /\ \E k \in DOMAIN slots :
        /\ k + 1 \in DOMAIN slots
        /\ slots[k].mismatch /\ slots[k + 1].mismatch
        /\ slots[k].worker # slots[k + 1].worker
        /\ \E i \in DOMAIN RecordsOf(call) :
            /\ Inside(ChunkStart(k - 1), RecordsOf(call)[i])
            /\ Inside(ChunkStart(k), RecordsOf(call)[i])

(***************************************************************************)
(* C3: for equal-length files and chunk_size > 0 every report is sound and *)
(* complete at chunk granularity: every differing byte position lies       *)
(* inside exactly one record, and every chunk [k * c, min((k + 1) * c, N)) *)
(* covered by a record contains a differing byte.                          *)
(***************************************************************************)
\* chunk k lies inside record r
Covers(r, k) ==
    r.offset <= ChunkStart(k) /\ ChunkStop(k) <= r.offset + r.length

C3_SoundAndComplete ==
    (SameLength /\ chunk_size > 0) =>
        \A v \in AllCalls :
            Finished(v) =>
                /\ HasReport(v)
                /\ \A i \in 0..(file_len - 1) :
                     Differs(i) =>
                        Cardinality({j \in DOMAIN RecordsOf(v) :
                                       Inside(i, RecordsOf(v)[j])}) = 1
                /\ \A j \in DOMAIN RecordsOf(v), k \in 0..(NumChunks - 1) :
                     Covers(RecordsOf(v)[j], k) => ChunkDiffers(k)

(***************************************************************************)
(* C4: in every report (any inputs, chunk_size > 0) no two consecutive     *)
(* records are adjacent: records[i].offset + records[i].length is never    *)
(* records[i + 1].offset.                                                  *)
(***************************************************************************)
C4_NoAdjacentRecords ==
    chunk_size > 0 =>
        \A v \in AllCalls :
            HasReport(v) =>
                \A i \in DOMAIN RecordsOf(v) :
                    (i + 1) \in DOMAIN RecordsOf(v) =>
                        RecordsOf(v)[i].offset + RecordsOf(v)[i].length
                            # RecordsOf(v)[i + 1].offset

\* all four variants have returned a report of at least two records
C4_Witness ==
    /\ chunk_size > 0
    /\ \A v \in AllCalls : HasReport(v) /\ Len(RecordsOf(v)) >= 2

(***************************************************************************)
(* C5: every record of every report has offset % chunk_size = 0, for       *)
(* every chunk_size > 0 and every file length.                             *)
(***************************************************************************)
C5_OffsetsAligned ==
    chunk_size > 0 =>
        \A v \in AllCalls :
            HasReport(v) =>
                \A i \in DOMAIN RecordsOf(v) :
                    RecordsOf(v)[i].offset % chunk_size = 0

(***************************************************************************)
(* C6: every record has length > 0 and a length that is a multiple of      *)
(* chunk_size, except that a record ending exactly at the file length N    *)
(* may be shorter.                                                         *)
(***************************************************************************)
C6_LengthsWholeChunks ==
    chunk_size > 0 =>
        \A v \in AllCalls :
            HasReport(v) =>
                \A i \in DOMAIN RecordsOf(v) :
                    LET r == RecordsOf(v)[i]
                    IN  /\ r.length > 0
                        /\ \/ r.length % chunk_size = 0
                           \/ r.offset + r.length = file_len

(***************************************************************************)
(* C7: every report is strictly increasing in offset, its records are      *)
(* pairwise non-overlapping (for i < j, records[i] ends at or before       *)
(* records[j] starts) and every record lies within [0, N), N the length    *)
(* of the reference file.                                                  *)
(***************************************************************************)
C7_OrderedDisjointInFile ==
    chunk_size > 0 =>
        \A v \in AllCalls :
            HasReport(v) =>
                /\ StrictlyIncreasing(RecordsOf(v))
                /\ \A i, j \in DOMAIN RecordsOf(v) :
                     i < j => RecordsOf(v)[i].offset + RecordsOf(v)[i].length
                                <= RecordsOf(v)[j].offset
                /\ \A i \in DOMAIN RecordsOf(v) :
                     /\ 0 <= RecordsOf(v)[i].offset
                     /\ RecordsOf(v)[i].offset + RecordsOf(v)[i].length
                            <= file_len

\* all four variants have returned two records, the last one being the
\* final chunk of a file whose length is no multiple of chunk_size
C7_Witness ==
    /\ chunk_size > 0
    /\ file_len % chunk_size # 0
    /\ \A v \in AllCalls :
        /\ HasReport(v)
        /\ Len(RecordsOf(v)) >= 2
        /\ LET last == RecordsOf(v)[Len(RecordsOf(v))]
           IN  last.offset + last.length = file_len

(***************************************************************************)
(* C8: a call with chunk_size = 0 is rejected before any work begins: it   *)
(* fails before either file is opened and never returns a report.          *)
(***************************************************************************)
C8_ZeroChunkSizeRejected ==
    (chunk_size = 0 /\ pc = "returned") =>
        /\ ~HasReport(call)
        /\ ~opened

(***************************************************************************)
(* C9: when the two files differ in length, a call either fails or         *)
(* returns a report whose last record covers the excess tail of the        *)
(* longer file; the tail is never silently ignored.                        *)
(***************************************************************************)
ShorterLen == Min(Len(reference), Len(corrupted))
LongerLen == IF Len(reference) >= Len(corrupted) THEN Len(reference)
             ELSE Len(corrupted)

CoversExcessTail(rs) ==
    /\ rs # <<>>
    /\ rs[Len(rs)].offset <= ShorterLen
    /\ rs[Len(rs)].offset + rs[Len(rs)].length = LongerLen

C9_LengthMismatchReported ==
    (~SameLength /\ chunk_size > 0) =>
        \A v \in AllCalls :
            HasReport(v) => CoversExcessTail(RecordsOf(v))

(***************************************************************************)
(* C10: for two byte-identical files of any size N >= 0 and any            *)
(* chunk_size > 0, every variant returns an empty report.                  *)
(***************************************************************************)
C10_IdenticalFilesEmptyReport ==
    (reference = corrupted /\ chunk_size > 0) =>
        \A v \in AllCalls :
            Finished(v) => reports[v] = Returned(<<>>)

\* all four variants have returned on identical files of several chunks,
\* the last chunk being a partial one
C10_Witness ==
    /\ reference = corrupted
    /\ chunk_size > 0
    /\ file_len > chunk_size
    /\ file_len % chunk_size # 0
    /\ \A v \in AllCalls : Finished(v)

(***************************************************************************)
(* C11: for two equal-length files of size N > 0 in which every chunk      *)
(* contains a differing byte, every variant returns exactly one record,    *)
(* with offset 0 and length N.                                             *)
(***************************************************************************)
EveryChunkDiffers ==
    /\ SameLength
    /\ chunk_size > 0
    /\ file_len > 0
    /\ \A k \in 0..(NumChunks - 1) : ChunkDiffers(k)

C11_AllDifferentOneRecord ==
    EveryChunkDiffers =>
        \A v \in AllCalls :
            Finished(v) => reports[v] = Returned(<<Corruption(0, file_len)>>)

(***************************************************************************)
(* C12: when the candidate differs from the reference exactly in the       *)
(* bytes of K windows whose chunk-aligned spans are pairwise non-          *)
(* overlapping and non-adjacent, every variant returns exactly K records,  *)
(* the j-th being the chunk-aligned span of the j-th window (ending at     *)
(* the end of the file when the span's last chunk is the partial one).     *)
(***************************************************************************)
\* the windows: the maximal ranges [s, e) of differing bytes
IsWindow(s, e) ==
    /\ s < e
    /\ \A i \in s..(e - 1) : Differs(i)
    /\ s = 0 \/ ~Differs(s - 1)
    /\ e = file_len \/ ~Differs(e)

Windows ==
    {w \in (0..file_len) \X (0..file_len) : IsWindow(w[1], w[2])}

\* the chunk-aligned span of a window, cut at the end of the file
SpanStart(w) == chunk_size * (w[1] \div chunk_size)
SpanStop(w) == Min(chunk_size * (((w[2] - 1) \div chunk_size) + 1), file_len)
SpanRecord(w) == Corruption(SpanStart(w), SpanStop(w) - SpanStart(w))

\* no two spans overlap or touch
SpansApart ==
    \A w1, w2 \in Windows :
        w1 # w2 => \/ SpanStop(w1) < SpanStart(w2)
                   \/ SpanStop(w2) < SpanStart(w1)

C12_OneRecordPerWindow ==
    (SameLength /\ chunk_size > 0 /\ SpansApart) =>
        \A v \in AllCalls :
            Finished(v) =>
                /\ HasReport(v)
                /\ Len(RecordsOf(v)) = Cardinality(Windows)
                /\ Range(RecordsOf(v)) = {SpanRecord(w) : w \in Windows}
                /\ StrictlyIncreasing(RecordsOf(v))

(***************************************************************************)
(* C13: for equal-length files A and B and any chunk_size > 0, each        *)
(* variant returns the same records for (reference = A, candidate = B) as  *)
(* for (reference = B, candidate = A).                                     *)
(***************************************************************************)
C13_SymmetricInTheFiles ==
    (round = "second" /\ swapped /\ SameLength /\ chunk_size > 0) =>
        \A v \in AllCalls :
            Finished(v) => /\ HasReport(v)
                           /\ reports[v] = prev[v]

\* both rounds are over on two different files, every report has a record
C13_Witness ==
    /\ round = "second" /\ swapped
    /\ SameLength /\ chunk_size > 0
    /\ reference # corrupted
    /\ \A v \in AllCalls : HasReport(v) /\ RecordsOf(v) # <<>>

(***************************************************************************)
(* C14: each variant is deterministic and stateless across calls: a        *)
(* second invocation on the same unmodified files with the same            *)
(* chunk_size returns the report of the first, whatever the thread         *)
(* scheduling of the two runs, and every call starts from fresh locals.    *)
(***************************************************************************)
C14_SameReportAgain ==
    /\ (round = "second" /\ ~swapped) =>
            \A v \in AllCalls : Finished(v) => reports[v] = prev[v]
    /\ pc = "start" => Idle

\* the second round is over; in it two corrupted chunks of a parallel call
\* were compared by different workers
C14_Witness ==
    /\ round = "second" /\ ~swapped
    /\ call = Len(Variants) /\ pc = "returned"
    /\ \A v \in AllCalls : HasReport(v) /\ RecordsOf(v) # <<>>
    /\ \E j, k \in DOMAIN slots :
        /\ slots[j].mismatch /\ slots[k].mismatch
        /\ slots[j].worker # slots[k].worker

(***************************************************************************)
(* C20: in every variant the compared chunks tile [0, N) in increasing     *)
(* offset order, the k-th chunk being [k * c, min((k + 1) * c, N)): every  *)
(* chunk but the last has length chunk_size.  For the sequential variant a *)
(* chunk is what one BufReader::read call delivers, so each chunk starts   *)
(* where k whole chunks end; for the mapped variants the chunks are the    *)
(* ranges [offset, end) of the map closure.                                *)
(***************************************************************************)
\* position p is the start of a chunk of the tiling, or the end of the file
IsChunkBoundary(p) ==
    \/ p = file_len
    \/ p < file_len /\ p % chunk_size = 0

C20_ChunksTileTheFile ==
    chunk_size > 0 =>
        /\ pc = "loop" => IsChunkBoundary(offset)
        /\ pc = "map" =>
            /\ DOMAIN slots = 1..NumChunks
            /\ \A k \in DOMAIN slots :
                LET off == StepBy(file_len, chunk_size)[k]
                IN  /\ off = ChunkStart(k - 1)
                    /\ ChunkEnd(off, chunk_size, file_len) = ChunkStop(k - 1)

(***************************************************************************)
(* bfs.rs: Graph and bfs_naive.  Nodes are usize values; node i has the    *)
(* adjacency list adjacency[i + 1].                                        *)
(***************************************************************************)
MaxNodes == 3
MaxEdges == 3

\* the usize values used as nodes; MaxNodes itself is never below num_nodes
Nodes == 0..MaxNodes

num_nodes == Len(adjacency)

NumEdges == LET RECURSIVE Sum(_)
                Sum(i) == IF i = 0 THEN 0 ELSE Len(adjacency[i]) + Sum(i - 1)
            IN  Sum(Len(adjacency))

\* graph.adjacency.get(node)
Get(node) == IF node < Len(adjacency) THEN <<adjacency[node + 1]>> ELSE <<>>

\* variant of ForNeighbors that enqueues a neighbor without consulting
\* visited
RECURSIVE ForNeighborsUnchecked(_, _, _)
ForNeighborsUnchecked(neighbors, vis, q) ==
    IF neighbors = <<>>
    THEN [visited |-> vis, queue |-> q]
    ELSE ForNeighborsUnchecked(Tail(neighbors), vis \cup {Head(neighbors)},
                               Append(q, Head(neighbors)))

\* variant of ForNeighbors with queue.push_front in place of push_back
RECURSIVE ForNeighborsPushFront(_, _, _)
ForNeighborsPushFront(neighbors, vis, q) ==
    IF neighbors = <<>>
    THEN [visited |-> vis, queue |-> q]
    ELSE LET neighbor == Head(neighbors)
         IN  IF neighbor \notin vis
             THEN ForNeighborsPushFront(Tail(neighbors), vis \cup {neighbor},
                                        <<neighbor>> \o q)
             ELSE ForNeighborsPushFront(Tail(neighbors), vis, q)

\* variant of ForNeighbors that looks at the first neighbor only
ForNeighborsFirstOnly(neighbors, vis, q) ==
    IF neighbors = <<>> \/ Head(neighbors) \in vis
    THEN [visited |-> vis, queue |-> q]
    ELSE [visited |-> vis \cup {Head(neighbors)},
          queue |-> Append(q, Head(neighbors))]

\* the for loop over the neighbors of the dequeued node
RECURSIVE ForNeighbors(_, _, _)
ForNeighbors(neighbors, vis, q) ==
    IF neighbors = <<>>
    THEN [visited |-> vis, queue |-> q]
    ELSE LET neighbor == Head(neighbors)
         IN  IF neighbor \notin vis
             THEN ForNeighbors(Tail(neighbors), vis \cup {neighbor},
                               Append(q, neighbor))
             ELSE ForNeighbors(Tail(neighbors), vis, q)

\* Graph::new(nodes)
GraphNew ==
    /\ bfs_pc = "off"
    /\ \E nodes \in 0..MaxNodes :
         adjacency' = [i \in 1..nodes |-> <<>>]
    /\ bfs_pc' = "build"
    /\ UNCHANGED <<start, visited, queue, result>>
    /\ UNCHANGED <<blob_vars, dna_vars, brightness_vars, compare_vars>>

\* graph.add_edge(from, to): indexing adjacency[from] panics when from is
\* out of range; to is pushed as it comes
add_edge ==
    /\ bfs_pc = "build"
    /\ NumEdges < MaxEdges
    /\ \E from \in Nodes, to \in Nodes :
         IF from < Len(adjacency)
         THEN /\ adjacency' = [adjacency EXCEPT ![from + 1] = Append(@, to)]
              /\ bfs_pc' = "build"
         ELSE /\ bfs_pc' = "panicked"
              /\ UNCHANGED adjacency
    /\ UNCHANGED <<start, visited, queue, result>>
    /\ UNCHANGED <<blob_vars, dna_vars, brightness_vars, compare_vars>>

\* bfs_naive(graph, start) up to the loop
BfsStart ==
    /\ bfs_pc = "build"
    /\ \E s \in Nodes :
         /\ start' = s
         /\ queue' = <<s>>
         /\ visited' = {s}
    /\ result' = <<>>
    /\ bfs_pc' = "loop"
    /\ UNCHANGED adjacency
    /\ UNCHANGED <<blob_vars, dna_vars, brightness_vars, compare_vars>>

\* one iteration of the while loop
Dequeue ==
    /\ bfs_pc = "loop"
    /\ queue # <<>>
    /\ LET node == Head(queue)
           after == IF Get(node) # <<>>
                    THEN ForNeighbors(Get(node)[1], visited, Tail(queue))
                    ELSE [visited |-> visited, queue |-> Tail(queue)]
       IN  /\ result' = Append(result, node)
           /\ visited' = after.visited
           /\ queue' = after.queue
    /\ UNCHANGED <<adjacency, bfs_pc, start>>
    /\ UNCHANGED <<blob_vars, dna_vars, brightness_vars, compare_vars>>

\* the queue is empty: result is returned
BfsReturn ==
    /\ bfs_pc = "loop"
    /\ queue = <<>>
    /\ bfs_pc' = "returned"
    /\ UNCHANGED <<adjacency, start, visited, queue, result>>
    /\ UNCHANGED <<blob_vars, dna_vars, brightness_vars, compare_vars>>

InitBfs ==
    /\ NoGraph
    /\ NoCompare
    /\ NoBlobs
    /\ NoSearch
    /\ NoImage

NextBfs ==
    \/ GraphNew
    \/ add_edge
    \/ BfsStart
    \/ Dequeue
    \/ BfsReturn

SpecBfs == InitBfs /\ [][NextBfs]_vars

(***************************************************************************)
(* C15: for a graph built with Graph::new(n) and add_edge calls with       *)
(* from < n, and any start, bfs_naive returns a non-empty list whose first *)
(* element is start and whose length is at most num_nodes().               *)
(***************************************************************************)
C15_NonEmptyStartFirstBounded ==
    bfs_pc = "returned" =>
        /\ result # <<>>
        /\ result[1] = start
        /\ Len(result) <= num_nodes

(***************************************************************************)
(* dna_matcher.rs: memchr_search_bytes and memchr_search_bytes_parallel.   *)
(* A byte is one of the characters below; positions are 0-based as in the  *)
(* source.                                                                 *)
(***************************************************************************)
\* longest genome searched
MaxGenome == 5
\* longest pattern searched for
MaxPattern == 2
\* least chunk size of the parallel search (1024 * 1024 in the source)
MinChunk == 2

NEWLINE == "\n"
HEADER == ">"
\* the bytes a genome is made of
Alphabet == {"A", HEADER, NEWLINE}

\* every byte string over alphabet of length at most n
RECURSIVE Strings(_, _)
Strings(alphabet, n) ==
    IF n = 0
    THEN {<<>>}
    ELSE LET shorter == Strings(alphabet, n - 1)
         IN  shorter \cup {Append(t, c) : t \in {u \in shorter : Len(u) = n - 1},
                                          c \in alphabet}

\* memchr::memchr(byte, haystack): Option<usize> as <<>> or <<position>>
memchr(byte, haystack) ==
    LET at == {i \in 0..(Len(haystack) - 1) : haystack[i + 1] = byte}
    IN  IF at = {} THEN <<>> ELSE <<CHOOSE i \in at : \A j \in at : i <= j>>

\* memchr::memrchr(byte, haystack)
memrchr(byte, haystack) ==
    LET at == {i \in 0..(Len(haystack) - 1) : haystack[i + 1] = byte}
    IN  IF at = {} THEN <<>> ELSE <<CHOOSE i \in at : \A j \in at : i >= j>>

\* memchr::memmem::find_iter(haystack, needle): the positions of the
\* non-overlapping occurrences, leftmost first
RECURSIVE FindFrom(_, _, _)
FindFrom(haystack, needle, from) ==
    IF from + Len(needle) > Len(haystack)
    THEN <<>>
    ELSE IF Slice(haystack, from, from + Len(needle)) = needle
         THEN <<from>> \o FindFrom(haystack, needle,
                                   from + (IF needle = <<>> THEN 1 ELSE Len(needle)))
         ELSE FindFrom(haystack, needle, from + 1)

find_iter(haystack, needle) == FindFrom(haystack, needle, 0)

\* variant of insert that reports every value as new
insert_always(set, value) == TRUE

\* HashSet::insert(value): is the value new to the set
insert(set, value) == value \notin set

\* variant of LineAt without the header check
LineAtAnyLine(bytes, match_pos) ==
    LET back == memrchr(NEWLINE, Slice(bytes, 0, match_pos))
        line_start == IF back = <<>> THEN 0 ELSE back[1] + 1
        fwd == memchr(NEWLINE, Slice(bytes, line_start, Len(bytes)))
        line_end == IF fwd = <<>> THEN Len(bytes) ELSE line_start + fwd[1]
    IN  <<Slice(bytes, line_start, line_end)>>

\* the body of the closure up to `let line`: Option of the line holding the
\* match, None for a header
LineAt(bytes, match_pos) ==
    LET back == memrchr(NEWLINE, Slice(bytes, 0, match_pos))
        line_start == IF back = <<>> THEN 0 ELSE back[1] + 1
        fwd == memchr(NEWLINE, Slice(bytes, line_start, Len(bytes)))
        line_end == IF fwd = <<>> THEN Len(bytes) ELSE line_start + fwd[1]
    IN  IF line_start < Len(bytes) /\ bytes[line_start + 1] = HEADER
        THEN <<>>
        ELSE <<Slice(bytes, line_start, line_end)>>

\* memchr_search_bytes: the filter_map closure on the next match
SearchMatch ==
    /\ dna_pc = "sequential"
    /\ matches_done < Len(find_iter(genome, pattern))
    /\ LET match_pos == find_iter(genome, pattern)[matches_done + 1]
           line == LineAt(genome, match_pos)
       IN  IF line # <<>> /\ insert(seen, line[1])
           THEN /\ seen' = seen \cup {line[1]}
                /\ results' = Append(results, line[1])
           ELSE UNCHANGED <<seen, results>>
    /\ matches_done' = matches_done + 1
    /\ UNCHANGED <<genome, pattern, dna_pc, chunk_starts, split_pos,
                   chunk_done, local_results, parallel_results>>
    /\ UNCHANGED <<blob_vars, bfs_vars, brightness_vars, compare_vars>>

\* memchr_search_bytes: find_iter is exhausted, collect() returns
SearchReturn ==
    /\ dna_pc = "sequential"
    /\ matches_done = Len(find_iter(genome, pattern))
    /\ dna_pc' = "searched"
    /\ UNCHANGED <<genome, pattern, seen, matches_done, results, chunk_starts,
                   split_pos, chunk_done, local_results, parallel_results>>
    /\ UNCHANGED <<blob_vars, bfs_vars, brightness_vars, compare_vars>>

\* memchr_search_bytes_parallel: chunk_size
SearchChunkSize ==
    LET threads == IF NumWorkers >= 1 THEN NumWorkers ELSE 1
        share == Len(genome) \div threads
    IN  IF share >= MinChunk THEN share ELSE MinChunk

\* memchr_search_bytes_parallel up to the splitting loop
ParallelStart ==
    /\ dna_pc = "searched"
    /\ seen' = {}
    /\ chunk_starts' = <<0>>
    /\ split_pos' = SearchChunkSize
    /\ dna_pc' = "split"
    /\ UNCHANGED <<genome, pattern, matches_done, results, chunk_done,
                   local_results, parallel_results>>
    /\ UNCHANGED <<blob_vars, bfs_vars, brightness_vars, compare_vars>>

\* after the splitting loop: chunk_starts.push(genome.len()) and the
\* par_windows(2) closures are ready to run
SplitEnd(starts) ==
    /\ chunk_starts' = Append(starts, Len(genome))
    /\ chunk_done' = [k \in 1..Len(starts) |-> 0]
    /\ local_results' = [k \in 1..Len(starts) |-> <<>>]
    /\ dna_pc' = "parallel"

\* one iteration of the splitting loop; without a further newline it breaks
SplitStep ==
    /\ dna_pc = "split"
    /\ split_pos < Len(genome)
    /\ LET newline_pos == memchr(NEWLINE, Slice(genome, split_pos, Len(genome)))
       IN  IF newline_pos # <<>>
           THEN /\ chunk_starts' = Append(chunk_starts,
                                          split_pos + newline_pos[1] + 1)
                /\ split_pos' = split_pos + newline_pos[1] + 1 + SearchChunkSize
                /\ UNCHANGED <<dna_pc, chunk_done, local_results>>
           ELSE /\ SplitEnd(chunk_starts)
                /\ UNCHANGED split_pos
    /\ UNCHANGED <<genome, pattern, seen, matches_done, results,
                   parallel_results>>
    /\ UNCHANGED <<blob_vars, bfs_vars, brightness_vars, compare_vars>>

\* the splitting loop ends because pos has reached the end of the genome
SplitDone ==
    /\ dna_pc = "split"
    /\ split_pos >= Len(genome)
    /\ SplitEnd(chunk_starts)
    /\ UNCHANGED <<genome, pattern, seen, matches_done, results, split_pos,
                   parallel_results>>
    /\ UNCHANGED <<blob_vars, bfs_vars, brightness_vars, compare_vars>>

\* the chunk of window k
Chunk(k) == Slice(genome, chunk_starts[k], chunk_starts[k + 1])

\* the for_each closure of window k on its next match; the windows run on
\* the pool's threads, so any window with matches left may take the step.
\* The lock on seen is held from the insert to the push.
ChunkMatch ==
    /\ dna_pc = "parallel"
    /\ \E k \in DOMAIN chunk_done :
         /\ chunk_done[k] < Len(find_iter(Chunk(k), pattern))
         /\ LET match_pos == find_iter(Chunk(k), pattern)[chunk_done[k] + 1]
                line == LineAt(Chunk(k), match_pos)
            IN  IF line # <<>> /\ insert(seen, line[1])
                THEN /\ seen' = seen \cup {line[1]}
                     /\ local_results' =
                            [local_results EXCEPT ![k] = Append(@, line[1])]
                ELSE UNCHANGED <<seen, local_results>>
         /\ chunk_done' = [chunk_done EXCEPT ![k] = @ + 1]
    /\ UNCHANGED <<genome, pattern, dna_pc, matches_done, results,
                   chunk_starts, split_pos, parallel_results>>
    /\ UNCHANGED <<blob_vars, bfs_vars, brightness_vars, compare_vars>>

\* flat_map(...).collect(): the local results in window order
RECURSIVE Flatten(_)
Flatten(vecs) ==
    IF vecs = <<>> THEN <<>> ELSE Head(vecs) \o Flatten(Tail(vecs))

\* every window is done: collect() returns
ParallelCollect ==
    /\ dna_pc = "parallel"
    /\ \A k \in DOMAIN chunk_done :
         chunk_done[k] = Len(find_iter(Chunk(k), pattern))
    /\ parallel_results' = Flatten(local_results)
    /\ dna_pc' = "returned"
    /\ UNCHANGED <<genome, pattern, seen, matches_done, results,
                   chunk_starts, split_pos, chunk_done, local_results>>
    /\ UNCHANGED <<blob_vars, bfs_vars, brightness_vars, compare_vars>>

\* a genome and a non-empty pattern without a newline
InitDna ==
    /\ genome \in Strings(Alphabet, MaxGenome)
    /\ pattern \in Strings(Alphabet \ {NEWLINE}, MaxPattern) \ {<<>>}
    /\ dna_pc = "sequential"
    /\ seen = {}
    /\ matches_done = 0
    /\ results = <<>>
    /\ chunk_starts = <<>>
    /\ split_pos = 0
    /\ chunk_done = <<>>
    /\ local_results = <<>>
    /\ parallel_results = <<>>
    /\ NoBlobs
    /\ NoGraph
    /\ NoCompare
    /\ NoImage

NextDna ==
    \/ SearchMatch
    \/ SearchReturn
    \/ ParallelStart
    \/ SplitStep
    \/ SplitDone
    \/ ChunkMatch
    \/ ParallelCollect

SpecDna == InitDna /\ [][NextDna]_vars

(***************************************************************************)
(* The lines of the genome, read off the bytes: a line starts at 0 or      *)
(* after a newline and runs to the next newline or the end.                *)
(***************************************************************************)
LineStarts ==
    {0} \cup {i + 1 : i \in {j \in 0..(Len(genome) - 1) : genome[j + 1] = NEWLINE}}

LineFrom(s) ==
    LET stops == {e \in s..Len(genome) :
                    /\ e = Len(genome) \/ genome[e + 1] = NEWLINE
                    /\ \A i \in s..(e - 1) : genome[i + 1] # NEWLINE}
    IN  Slice(genome, s, CHOOSE e \in stops : TRUE)

Contains(line, needle) ==
    \E i \in 0..(Len(line) - Len(needle)) :
        Slice(line, i, i + Len(needle)) = needle

IsHeaderLine(line) == line # <<>> /\ line[1] = HEADER

\* starts of the lines that hold the pattern and are no headers
WantedStarts ==
    {s \in LineStarts : /\ Contains(LineFrom(s), pattern)
                        /\ ~IsHeaderLine(LineFrom(s))}

\* of these, the first occurrence of each line text
FirstStarts ==
    {s \in WantedStarts :
        \A t \in WantedStarts : t < s => LineFrom(t) # LineFrom(s)}

\* the i-th first occurrence in genome order
NthFirstStart(i) ==
    CHOOSE s \in FirstStarts : Cardinality({t \in FirstStarts : t < s}) = i - 1

(***************************************************************************)
(* C16: memchr_search_bytes returns exactly the distinct lines of the      *)
(* genome that contain the pattern and do not start with '>': each once,   *)
(* whole, in order of first occurrence; no header line is returned.        *)
(***************************************************************************)
C16_DistinctMatchingLines ==
    dna_pc \notin {"off", "sequential"} =>
        /\ Len(results) = Cardinality(FirstStarts)
        /\ \A i \in 1..Len(results) : results[i] = LineFrom(NthFirstStart(i))
        /\ \A i \in 1..Len(results) : ~IsHeaderLine(results[i])

\* a search has returned a line longer than the pattern, after passing over
\* a header that holds the pattern
C16_Witness ==
    /\ dna_pc = "searched"
    /\ \E i \in 1..Len(results) : Len(results[i]) > Len(pattern)
    /\ \E s \in LineStarts :
        IsHeaderLine(LineFrom(s)) /\ Contains(LineFrom(s), pattern)

(***************************************************************************)
(* C17: under every interleaving of the windows on the seen mutex,         *)
(* memchr_search_bytes_parallel returns a list without duplicate lines     *)
(* whose set of lines is the set memchr_search_bytes returns, so the two   *)
(* lists have the same length.                                             *)
(***************************************************************************)
NoDuplicates(lines) ==
    \A i, j \in DOMAIN lines : i # j => lines[i] # lines[j]

C17_ParallelSameLines ==
    dna_pc = "returned" =>
        /\ NoDuplicates(parallel_results)
        /\ Range(parallel_results) = Range(results)
        /\ Len(parallel_results) = Len(results)

\* the parallel search has returned a line that two windows both matched
C17_Witness ==
    /\ dna_pc = "returned"
    /\ parallel_results # <<>>
    /\ \E j, k \in DOMAIN chunk_done :
        /\ j # k
        /\ \E m \in DOMAIN find_iter(Chunk(j), pattern),
              n \in DOMAIN find_iter(Chunk(k), pattern) :
            LET line == LineAt(Chunk(j), find_iter(Chunk(j), pattern)[m])
            IN  /\ line # <<>>
                /\ line = LineAt(Chunk(k), find_iter(Chunk(k), pattern)[n])

(***************************************************************************)
(* simd_brightness.rs: brightness_scalar, brightness_autovec and           *)
(* brightness_simd.  An image is its width, its height and its raw buffer  *)
(* of 3 * width * height bytes, row by row.                                *)
(***************************************************************************)
\* largest width and height of an image
MaxDim == 2
\* lanes of the vectors of brightness_simd (16 in the source), scaled down
PixelLanes == 4

U8_MAX == 255
I16_MIN == -(2^15)
I16_MAX == 2^15 - 1

\* the adjustments tried: the ends of the i16 range, the ends of the range
\* that cannot overflow, and the values around zero and around +-255
Adjustments ==
    {I16_MIN, I16_MIN + 1, I16_MIN + U8_MAX, -U8_MAX - 1, -U8_MAX, -1, 0, 1,
     20, U8_MAX, U8_MAX + 1, I16_MAX - U8_MAX, I16_MAX - 1, I16_MAX}

BrightnessFns == <<"scalar", "autovec", "simd">>

brightness_fn == BrightnessFns[brightness_call]

\* ImageBuffer::from_fn(width, height, |x, y| Rgb([x * step, y * step, base]))
\* with the channel values cast to u8
TestImage(width, height, step, base) ==
    [width |-> width, height |-> height,
     raw |-> [i \in 1..(3 * width * height) |->
                LET c == (i - 1) % 3
                    x == ((i - 1) \div 3) % width
                    y == ((i - 1) \div 3) \div width
                IN  IF c = 0 THEN (x * step) % (U8_MAX + 1)
                    ELSE IF c = 1 THEN (y * step) % (U8_MAX + 1)
                    ELSE base]]

\* i16 addition that wraps (lane-wise addition of Simd, and `+` in a build
\* without overflow checks)
wrapping_add(a, b) == ((a + b - I16_MIN) % (2^16)) + I16_MIN

\* `a + b` on i16: Option of the sum, None for the panic of a build with
\* overflow checks
Add(a, b) ==
    IF a + b \in I16_MIN..I16_MAX
    THEN <<a + b>>
    ELSE IF overflow_checks THEN <<>> ELSE <<wrapping_add(a, b)>>

\* variant of clamp without the lower limit
clamp_above(value, min, max) == IF value > max THEN max ELSE value

\* i16::clamp(min, max)
clamp(value, min, max) ==
    IF value < min THEN min ELSE IF value > max THEN max ELSE value

\* lane-wise simd_clamp
simd_clamp(value, min, max) ==
    LET low == IF value < min THEN min ELSE value
    IN  IF low > max THEN max ELSE low

\* `as u8` and the cast of a lane to u8
as_u8(value) == value % (U8_MAX + 1)

\* one channel in scalar code: Option of the output byte
Channel(byte) ==
    LET value == Add(byte, adjustment)
    IN  IF value = <<>> THEN <<>> ELSE <<as_u8(clamp(value[1], 0, U8_MAX))>>

\* one lane in vector code
Lane(byte) == as_u8(simd_clamp(wrapping_add(byte, adjustment), 0, U8_MAX))

\* an image returned by a call
Image(width, height, raw) ==
    [kind |-> "ok", width |-> width, height |-> height, raw |-> raw]

\* the call ends: with the image, or with the panic of an overflow
EndCall(r) ==
    /\ images' = [images EXCEPT ![brightness_call] = r]
    /\ brightness_pc' = "finished"
    /\ index' = 0
    /\ output' = <<>>

\* each function up to its loop: the output buffer is allocated, zeroed
BrightnessStart ==
    /\ brightness_pc = "start"
    /\ output' = [i \in 1..Len(img.raw) |-> 0]
    /\ index' = 0
    /\ brightness_pc' = "loop"
    /\ UNCHANGED <<img, adjustment, overflow_checks, brightness_call, images>>
    /\ UNCHANGED <<blob_vars, bfs_vars, dna_vars, compare_vars>>

\* brightness_scalar: one pixel of enumerate_pixels
ScalarPixel ==
    /\ brightness_pc = "loop"
    /\ brightness_fn = "scalar"
    /\ index < img.width * img.height
    /\ LET r == Channel(img.raw[3 * index + 1])
           g == Channel(img.raw[3 * index + 2])
           b == Channel(img.raw[3 * index + 3])
       IN  IF r = <<>> \/ g = <<>> \/ b = <<>>
           THEN EndCall(Panic)
           ELSE /\ output' = [output EXCEPT ![3 * index + 1] = r[1],
                                            ![3 * index + 2] = g[1],
                                            ![3 * index + 3] = b[1]]
                /\ index' = index + 1
                /\ UNCHANGED <<brightness_pc, images>>
    /\ UNCHANGED <<img, adjustment, overflow_checks, brightness_call>>
    /\ UNCHANGED <<blob_vars, bfs_vars, dna_vars, compare_vars>>

\* brightness_autovec: one byte of the loop
AutovecByte ==
    /\ brightness_pc = "loop"
    /\ brightness_fn = "autovec"
    /\ index < Len(img.raw)
    /\ LET value == Channel(img.raw[index + 1])
       IN  IF value = <<>>
           THEN EndCall(Panic)
           ELSE /\ output' = [output EXCEPT ![index + 1] = value[1]]
                /\ index' = index + 1
                /\ UNCHANGED <<brightness_pc, images>>
    /\ UNCHANGED <<img, adjustment, overflow_checks, brightness_call>>
    /\ UNCHANGED <<blob_vars, bfs_vars, dna_vars, compare_vars>>

\* input.chunks_exact(PixelLanes): the number of chunks and the remainder
NumExact == Len(img.raw) \div PixelLanes

RemainderLen == Len(img.raw) % PixelLanes

\* brightness_simd: one chunk of chunks_exact
SimdChunk ==
    /\ brightness_pc = "loop"
    /\ brightness_fn = "simd"
    /\ index < NumExact
    /\ output' = [i \in DOMAIN output |->
                    IF i - 1 \in (index * PixelLanes)..((index + 1) * PixelLanes - 1)
                    THEN Lane(img.raw[i])
                    ELSE output[i]]
    /\ index' = index + 1
    /\ UNCHANGED <<img, adjustment, overflow_checks, brightness_call,
                   brightness_pc, images>>
    /\ UNCHANGED <<blob_vars, bfs_vars, dna_vars, compare_vars>>

\* brightness_simd: one byte of the remainder, in scalar code
SimdRemainder ==
    /\ brightness_pc = "loop"
    /\ brightness_fn = "simd"
    /\ index >= NumExact
    /\ index - NumExact < RemainderLen
    /\ LET i == index - NumExact
           at == Len(img.raw) - RemainderLen + i
           value == Channel(img.raw[at + 1])
       IN  IF value = <<>>
           THEN EndCall(Panic)
           ELSE /\ output' = [output EXCEPT ![at + 1] = value[1]]
                /\ index' = index + 1
                /\ UNCHANGED <<brightness_pc, images>>
    /\ UNCHANGED <<img, adjustment, overflow_checks, brightness_call>>
    /\ UNCHANGED <<blob_vars, bfs_vars, dna_vars, compare_vars>>

\* the loops of the running function are over
LoopsDone ==
    IF brightness_fn = "scalar" THEN index = img.width * img.height
    ELSE IF brightness_fn = "autovec" THEN index = Len(img.raw)
    ELSE index = NumExact + RemainderLen

\* the image is returned (ImageBuffer::from_raw succeeds: the buffer has
\* the length of the input)
BrightnessReturn ==
    /\ brightness_pc = "loop"
    /\ LoopsDone
    /\ EndCall(Image(img.width, img.height, output))
    /\ UNCHANGED <<img, adjustment, overflow_checks, brightness_call>>
    /\ UNCHANGED <<blob_vars, bfs_vars, dna_vars, compare_vars>>

\* the next function is called on the same image
NextBrightnessCall ==
    /\ brightness_pc = "finished"
    /\ brightness_call < Len(BrightnessFns)
    /\ brightness_call' = brightness_call + 1
    /\ brightness_pc' = "start"
    /\ UNCHANGED <<img, adjustment, overflow_checks, index, output, images>>
    /\ UNCHANGED <<blob_vars, bfs_vars, dna_vars, compare_vars>>

InitBrightness ==
    /\ \E width, height \in 0..MaxDim, step \in {50, U8_MAX}, base \in {0, 128, U8_MAX} :
         img = TestImage(width, height, step, base)
    /\ adjustment \in Adjustments
    /\ overflow_checks \in BOOLEAN
    /\ brightness_call = 1
    /\ brightness_pc = "start"
    /\ index = 0
    /\ output = <<>>
    /\ images = [v \in 1..Len(BrightnessFns) |-> NoResult]
    /\ NoBlobs
    /\ NoGraph
    /\ NoCompare
    /\ NoSearch

NextBrightness ==
    \/ BrightnessStart
    \/ ScalarPixel
    \/ AutovecByte
    \/ SimdChunk
    \/ SimdRemainder
    \/ BrightnessReturn
    \/ NextBrightnessCall

SpecBrightness == InitBrightness /\ [][NextBrightness]_vars

(***************************************************************************)
(* C18: for every image and every adjustment of the i16 range the three    *)
(* functions return byte-identical buffers, also when pixel + adjustment   *)
(* leaves the i16 range and for lengths that are no multiple of the lane   *)
(* count.                                                                  *)
(***************************************************************************)
C18_SameBuffers ==
    (brightness_call = Len(BrightnessFns) /\ brightness_pc = "finished") =>
        /\ \A v \in 1..Len(BrightnessFns) : images[v].kind = "ok"
        /\ \A v \in 1..Len(BrightnessFns) : images[v].raw = images[1].raw

(***************************************************************************)
(* C19: for every channel value p and every adjustment a with              *)
(* -255 <= a <= 255 each function outputs min(255, max(0, p + a)) for      *)
(* that channel, and the output image has the dimensions of the input.     *)
(***************************************************************************)
Expected(p, a) ==
    LET low == IF p + a > 0 THEN p + a ELSE 0
    IN  IF low < U8_MAX THEN low ELSE U8_MAX

C19_ClampedSum ==
    adjustment \in (-U8_MAX)..U8_MAX =>
        \A v \in 1..Len(BrightnessFns) :
            (v < brightness_call \/ (v = brightness_call /\ brightness_pc = "finished")) =>
                /\ images[v].kind = "ok"
                /\ images[v].width = img.width
                /\ images[v].height = img.height
                /\ Len(images[v].raw) = Len(img.raw)
                /\ \A i \in DOMAIN img.raw :
                    images[v].raw[i] = Expected(img.raw[i], adjustment)

\* the three functions have returned an image of which one channel was
\* clamped and another (128 + 20 = 148) was not, the last bytes in the
\* remainder of brightness_simd
C19_Witness ==
    /\ brightness_call = Len(BrightnessFns)
    /\ brightness_pc = "finished"
    /\ adjustment = 20
    /\ RemainderLen > 0 /\ NumExact > 0
    /\ \E i, j \in DOMAIN img.raw :
        /\ img.raw[i] = 128 /\ images[3].raw[i] = 148
        /\ img.raw[j] = U8_MAX /\ images[3].raw[j] = U8_MAX

(***************************************************************************)
(* chunks_equal_simd called on any two slices, of equal or unequal length. *)
(***************************************************************************)
\* longest slice passed to chunks_equal_simd
MaxSlice == 5

\* a byte of the pattern and its corruption
SliceBytes == {PatternByte(0), XorFF(PatternByte(0))}

\* chunks_equal_simd::<LANES>(a, b) is called and returns
CompareSlices ==
    /\ compare_pc = "called"
    /\ verdict' = chunks_equal_simd(slice_a, slice_b)
    /\ compare_pc' = "returned"
    /\ UNCHANGED <<slice_a, slice_b>>
    /\ UNCHANGED <<blob_vars, bfs_vars, dna_vars, brightness_vars>>

InitCompare ==
    /\ slice_a \in Strings(SliceBytes, MaxSlice)
    /\ slice_b \in Strings(SliceBytes, MaxSlice)
    /\ compare_pc = "called"
    /\ verdict = FALSE
    /\ NoBlobs
    /\ NoGraph
    /\ NoSearch
    /\ NoImage

NextCompare ==
    \/ CompareSlices

SpecCompare == InitCompare /\ [][NextCompare]_vars

(***************************************************************************)
(* C21: chunks_equal_simd(a, b) returns the boolean of the slice equality  *)
(* a == b for every pair of slices: of equal or unequal length, shorter    *)
(* than LANES, a multiple of LANES or not, and with a single differing     *)
(* byte in a full lane or in the trailing remainder.                       *)
(***************************************************************************)
C21_SimdIsSliceEquality ==
    compare_pc = "returned" => verdict = SliceEq(slice_a, slice_b)

\* the call returned false for two slices of one length, longer than LANES
\* and no multiple of it, that differ in one byte of the remainder only
C21_Witness ==
    /\ compare_pc = "returned"
    /\ ~verdict
    /\ Len(slice_a) = Len(slice_b)
    /\ Len(slice_a) > LANES
    /\ Len(slice_a) % LANES # 0
    /\ \E i \in DOMAIN slice_a :
        /\ i > Len(slice_a) - (Len(slice_a) % LANES)
        /\ \A j \in DOMAIN slice_a : (slice_a[j] # slice_b[j]) <=> j = i

(***************************************************************************)
(* C22: in the merge loop of every variant a chunk whose bytes are all     *)
(* equal leaves the accumulated report and the open record unchanged, and  *)
(* no chunk modifies a record emitted before the open one.  The open       *)
(* record is corruptions.last() in the sequential variant and              *)
(* current_corruption in the mapped ones.                                  *)
(***************************************************************************)
\* are the bytes [lo, hi) of the two files equal
SameBytes(lo, hi) == Slice(reference, lo, hi) = Slice(corrupted, lo, hi)

\* the records of before that are closed at this step: all of them in the
\* mapped variants, all but the last in the sequential one
ClosedBefore ==
    IF variant = "sequential"
    THEN 1..(Len(corruptions) - 1)
    ELSE 1..Len(corruptions)

\* a step of the sequential read loop that compared the chunk
\* [offset, offset')
SequentialChunkStep == pc = "loop" /\ pc' = "loop" /\ offset' > offset

\* a step of the merge loop of a mapped variant
MappedChunkStep == pc = "merge" /\ pc' = "merge" /\ next' = next + 1

MergeFrame ==
    /\ SequentialChunkStep =>
        /\ SameBytes(offset, offset') => corruptions' = corruptions
        /\ Len(corruptions') >= Len(corruptions)
        /\ \A i \in ClosedBefore : corruptions'[i] = corruptions[i]
    /\ MappedChunkStep =>
        LET off == chunk_mismatches[next][1]
        IN  /\ SameBytes(off, ChunkEnd(off, chunk_size, file_len)) =>
                /\ corruptions' = corruptions
                /\ current_corruption' = current_corruption
            /\ Len(corruptions') >= Len(corruptions)
            /\ \A i \in ClosedBefore : corruptions'[i] = corruptions[i]

C22_MatchingChunkChangesNothing == [][MergeFrame]_vars

\* the merge loop of a mapped variant has passed a corrupted chunk and then
\* a matching one, and the record of the first is still open
C22_Witness ==
    /\ pc = "merge"
    /\ next > 2
    /\ chunk_mismatches[next - 2][2]
    /\ ~chunk_mismatches[next - 1][2]
    /\ current_corruption # <<>>
    /\ current_corruption[1].offset = chunk_mismatches[next - 2][1]

(***************************************************************************)
(* The graph as a relation: the nodes an edge leads to, the nodes within   *)
(* k edges of start, and the distance from start.                          *)
(***************************************************************************)
Successors(node) ==
    IF node < Len(adjacency) THEN Range(adjacency[node + 1]) ELSE {}

RECURSIVE Within(_)
Within(k) ==
    IF k = 0
    THEN {start}
    ELSE LET near == Within(k - 1)
         IN  near \cup UNION {Successors(node) : node \in near}

\* no shortest path has more edges than there are node values
Reachable == Within(MaxNodes + 1)

Distance(node) ==
    CHOOSE k \in 0..(MaxNodes + 1) :
        /\ node \in Within(k)
        /\ \A j \in 0..(k - 1) : node \notin Within(j)

(***************************************************************************)
(* C23: bfs_naive returns each node reachable from start exactly once and  *)
(* no other node, also for graphs with cycles, self-loops and parallel     *)
(* edges.                                                                  *)
(***************************************************************************)
C23_ExactlyTheReachableNodes ==
    bfs_pc = "returned" =>
        /\ NoDuplicates(result)
        /\ Range(result) = Reachable

\* bfs_naive has returned on a graph with a self-loop, a parallel edge and
\* a node out of reach
C23_Witness ==
    /\ bfs_pc = "returned"
    /\ Len(result) >= 2
    /\ \E node \in Range(result) : node \in Successors(node)
    /\ \E i \in DOMAIN adjacency : ~NoDuplicates(adjacency[i])
    /\ \E node \in 0..(Len(adjacency) - 1) : node \notin Range(result)

(***************************************************************************)
(* C24: the list returned by bfs_naive is in breadth-first order: the      *)
(* distance from start never decreases along the list, and the children    *)
(* first discovered from one node appear in the order of that node's       *)
(* adjacency list.                                                         *)
(***************************************************************************)
\* the place of a node in the returned list
Place(node) == CHOOSE i \in DOMAIN result : result[i] = node

\* the node a child was first discovered from: the first node of the list
\* with an edge to it
Parent(child) ==
    result[CHOOSE i \in DOMAIN result :
              /\ child \in Successors(result[i])
              /\ \A j \in 1..(i - 1) : child \notin Successors(result[j])]

\* the first place of a child in the adjacency list of its parent
FirstEdge(child) ==
    LET list == adjacency[Parent(child) + 1]
    IN  CHOOSE i \in DOMAIN list :
            list[i] = child /\ \A j \in 1..(i - 1) : list[j] # child

C24_BreadthFirstOrder ==
    bfs_pc = "returned" =>
        /\ \A i, j \in DOMAIN result :
            i < j => Distance(result[i]) <= Distance(result[j])
        /\ \A v, w \in Range(result) \ {start} :
            (Parent(v) = Parent(w) /\ FirstEdge(v) < FirstEdge(w)) =>
                Place(v) < Place(w)

\* bfs_naive has returned a list with nodes at distance 0, 1 and 2, two of
\* them children of one node
C24_Witness ==
    /\ bfs_pc = "returned"
    /\ \E node \in Range(result) : Distance(node) = 2
    /\ \E v, w \in Range(result) \ {start} : v # w /\ Parent(v) = Parent(w)

(***************************************************************************)
(* A call that has entered the loop runs on: the loop body and the return  *)
(* are steps of the one thread that called bfs_naive.                      *)
(***************************************************************************)
SpecBfsFair ==
    /\ InitBfs
    /\ [][NextBfs]_vars
    /\ WF_vars(Dequeue)
    /\ WF_vars(BfsReturn)

(***************************************************************************)
(* C25: bfs_naive terminates on every finite graph, cycles and self-loops  *)
(* included: every node is enqueued at most once, so the nodes of the      *)
(* queue and of the result are distinct and are the visited ones, and the  *)
(* call returns.                                                           *)
(***************************************************************************)
EnqueuedOnce ==
    bfs_pc = "loop" =>
        /\ NoDuplicates(result \o queue)
        /\ Range(result \o queue) = visited

C25_Terminates ==
    /\ []EnqueuedOnce
    /\ (bfs_pc = "loop") ~> (bfs_pc = "returned")

\* bfs_naive has returned on a graph with an edge back to a node dequeued
\* before: a cycle through start
C25_Witness ==
    /\ bfs_pc = "returned"
    /\ Len(result) >= 2
    /\ \E node \in Range(result) \ {start} : start \in Successors(node)

====
